---- MODULE Spec2Model ----
(***************************************************************************)
(* Model of src/qualifier/qualifier.py: the validator valid_input, the     *)
(* splitter split_image_with_tile, the joiner join_parts and the           *)
(* orchestrator rearrange_tiles.                                           *)
(*                                                                         *)
(* An image is a record [size |-> <<width, height>>, px |-> pixels], where *)
(* px maps each coordinate <<x, y>> to a colour.  The source image gives   *)
(* every pixel its own colour (its row-major index plus one), so the       *)
(* colour of an output pixel names the input pixel it was copied from;     *)
(* Blank is the colour Image.new fills a fresh canvas with.  The colour    *)
(* mode is carried through unchanged by the code and is left out.          *)
(*                                                                         *)
(* Python's true division W / tw yields a float; it is only read after     *)
(* valid_input has established W % tw == 0, where it equals W \div tw.     *)
(***************************************************************************)
EXTENDS Integers, Sequences, FiniteSets, TLC

\* Bounds of the model.
MaxDim == 2      \* image width and height range over 1..MaxDim pixels
MaxLen == 4      \* orderings have at most MaxLen entries
MaxVal == 3      \* ordering entries range over -1..MaxVal

Blank == 0

ImageDims == 1..MaxDim
TileDims == 0..MaxDim
OrderVals == -1..MaxVal

RECURSIVE SeqsUpTo(_, _)
SeqsUpTo(S, n) ==
    IF n = 0 THEN {<<>>}
    ELSE LET shorter == SeqsUpTo(S, n - 1)
         IN  shorter \cup {Append(s, v) : s \in {t \in shorter : Len(t) = n - 1}, v \in S}

Orderings == SeqsUpTo(OrderVals, MaxLen)

VARIABLES
    pc,            \* position of the running call
    image,         \* the image Image.open(image_path) yields
    tile_size,     \* argument tile_size = <<tile_width, tile_height>>
    ordering,      \* argument ordering
    valid,         \* outcome of valid_input: "none", "True", "False" or the exception
    exc,           \* exception that ended the call, or "none"
    parts,         \* rearrange_tiles: list returned by split_image_with_tile
    joined_image,  \* join_parts: the canvas
    idx,           \* join_parts: loop position in enumerate(order)
    pasted,        \* join_parts: the boxes pasted so far, <<left, upper, right, lower>>
    out_file       \* what is stored under out_path

vars == <<pc, image, tile_size, ordering, valid, exc, parts, joined_image, idx,
          pasted, out_file>>

----------------------------------------------------------------------------
\* Python primitives

\* a % b for Python ints and for the integral floats the code applies it to:
\* the result takes the sign of the divisor.
PyMod(a, b) == IF b > 0 THEN a % b ELSE -((-a) % (-b))

\* Variant: duplicates are not collapsed.
SetLen_NoDedup(s) == Len(s)

\* len(set(ordering))
SetLen(s) == Cardinality({s[i] : i \in 1..Len(s)})

\* lst[i]: defined for -len(lst) <= i < len(lst), IndexError otherwise
PyIndexOk(lst, i) == -Len(lst) <= i /\ i < Len(lst)
PyIndex(lst, i) == IF i >= 0 THEN lst[i + 1] ELSE lst[Len(lst) + i + 1]

\* list(range(0, stop, step)) for step > 0
Range(stop, step) == [k \in 1..((stop + step - 1) \div step) |-> (k - 1) * step]

----------------------------------------------------------------------------
\* PIL primitives

Coords(w, h) == (0..(w - 1)) \X (0..(h - 1))

\* Variant: width and height exchanged.
NewImage_Swapped(width, height) ==
    [size |-> <<height, width>>, px |-> [p \in Coords(height, width) |-> Blank]]

\* Image.new(mode, (width, height))
NewImage(width, height) ==
    [size |-> <<width, height>>, px |-> [p \in Coords(width, height) |-> Blank]]

NoImage == NewImage(0, 0)

\* The decoded source image: pixel <<x, y>> has colour y*W + x + 1.
SourceImage(w, h) ==
    [size |-> <<w, h>>, px |-> [p \in Coords(w, h) |-> p[2] * w + p[1] + 1]]

\* image.crop((left, upper, right, lower)); pixels outside the image are blank
Crop(img, box) ==
    LET w == box[3] - box[1]
        h == box[4] - box[2]
    IN  [size |-> <<w, h>>,
         px |-> [p \in Coords(w, h) |->
                    LET q == <<box[1] + p[1], box[2] + p[2]>>
                    IN  IF q \in DOMAIN img.px THEN img.px[q] ELSE Blank]]

\* canvas.paste(part, (left, upper)); the part is clipped to the canvas
Paste(canvas, part, left, upper) ==
    [canvas EXCEPT !.px =
        [p \in DOMAIN canvas.px |->
            LET q == <<p[1] - left, p[2] - upper>>
            IN  IF q \in DOMAIN part.px THEN part.px[q] ELSE canvas.px[p]]]

----------------------------------------------------------------------------
\* Variant: the count check of line 26 is left out.
valid_input_NoCountCheck(image_size, tile_sz, ord) ==
    IF SetLen(ord) # Len(ord) THEN "False"
    ELSE IF tile_sz[1] = 0 THEN "ZeroDivisionError"
    ELSE IF PyMod(image_size[1], tile_sz[1]) # 0 THEN "False"
    ELSE IF tile_sz[2] = 0 THEN "ZeroDivisionError"
    ELSE IF PyMod(image_size[2], tile_sz[2]) # 0 THEN "False"
    ELSE IF Len(ord) = 0 THEN "ZeroDivisionError"
    ELSE "True"

\* valid_input (lines 8-31).  The outcome is "True", "False" or the name of
\* the exception the evaluation raises.
valid_input(image_size, tile_sz, ord) ==
    IF SetLen(ord) # Len(ord) THEN "False"
    ELSE IF tile_sz[1] = 0 THEN "ZeroDivisionError"
    ELSE IF PyMod(image_size[1], tile_sz[1]) # 0 THEN "False"
    ELSE IF tile_sz[2] = 0 THEN "ZeroDivisionError"
    ELSE IF PyMod(image_size[2], tile_sz[2]) # 0 THEN "False"
    ELSE LET cols == image_size[1] \div tile_sz[1]
             rows == image_size[2] \div tile_sz[2]
         IN  IF Len(ord) = 0 THEN "ZeroDivisionError"
             ELSE IF PyMod(cols * rows, Len(ord)) = 0 THEN "True"
             ELSE "False"

\* split_image_with_tile (lines 68-93): the crops in the order the two loops
\* append them.
RECURSIVE Concat(_)
Concat(ss) == IF Len(ss) = 0 THEN <<>> ELSE Head(ss) \o Concat(Tail(ss))

\* Variant: the loops are nested the other way round (x outside, y inside).
split_image_with_tile_ColumnMajor(img, tile_sz) ==
    LET ys == Range(img.size[2], tile_sz[2])
        xs == Range(img.size[1], tile_sz[1])
    IN  Concat([i \in 1..Len(xs) |->
                  [j \in 1..Len(ys) |->
                      Crop(img, <<xs[i], ys[j], xs[i] + tile_sz[1], ys[j] + tile_sz[2]>>)]])

split_image_with_tile(img, tile_sz) ==
    LET width == img.size[1]
        height == img.size[2]
        tile_width == tile_sz[1]
        tile_height == tile_sz[2]
        ys == Range(height, tile_height)
        xs == Range(width, tile_width)
    IN  Concat([j \in 1..Len(ys) |->
                  [i \in 1..Len(xs) |->
                      Crop(img, <<xs[i], ys[j], xs[i] + tile_width, ys[j] + tile_height>>)]])

\* Variant: row and column index exchanged.
DestCell_Swapped(i, cols) == <<i \div cols, PyMod(i, cols)>>

\* join_parts, lines 117-118: the grid cell <<col_idx, row_idx>> of position i
DestCell(i, cols) == <<PyMod(i, cols), i \div cols>>

\* Variant: part width and part height exchanged.
DestOffset_Swapped(cell, part_size) == <<cell[1] * part_size[2], cell[2] * part_size[1]>>

\* join_parts, lines 120-121: the pixel offset <<left, upper>> of a grid cell
DestOffset(cell, part_size) == <<cell[1] * part_size[1], cell[2] * part_size[2]>>

\* rearrange_tiles, lines 49-50, as read by join_parts after validation
Cols == image.size[1] \div tile_size[1]
Rows == image.size[2] \div tile_size[2]

----------------------------------------------------------------------------
Init ==
    /\ pc = "start"
    /\ \E w \in ImageDims, h \in ImageDims : image = SourceImage(w, h)
    /\ tile_size \in TileDims \X TileDims
    /\ ordering \in Orderings
    /\ valid = "none"
    /\ exc = "none"
    /\ parts = <<>>
    /\ joined_image = NoImage
    /\ idx = 0
    /\ pasted = <<>>
    /\ out_file \in {[state |-> "absent", data |-> NoImage],
                     [state |-> "old", data |-> NoImage]}

\* A direct call valid_input(image.size, tile_size, ordering).
CallValidInput ==
    /\ pc = "start"
    /\ LET r == valid_input(image.size, tile_size, ordering)
       IN  /\ valid' = r
           /\ exc' = IF r \in {"True", "False"} THEN "none" ELSE r
    /\ pc' = "returned"
    /\ UNCHANGED <<image, tile_size, ordering, parts, joined_image, idx, pasted, out_file>>

\* rearrange_tiles, lines 47-51: open the image and derive cols and rows.
Open ==
    /\ pc = "start"
    /\ IF tile_size[1] = 0 \/ tile_size[2] = 0
       THEN /\ exc' = "ZeroDivisionError"
            /\ pc' = "raised"
       ELSE /\ exc' = exc
            /\ pc' = "validate"
    /\ UNCHANGED <<image, tile_size, ordering, valid, parts, joined_image, idx, pasted,
                   out_file>>

\* rearrange_tiles, lines 54-56.
Validate ==
    /\ pc = "validate"
    /\ LET r == valid_input(image.size, tile_size, ordering)
       IN  /\ valid' = r
           /\ IF r = "True" THEN exc' = exc /\ pc' = "split"
              ELSE IF r = "False" THEN exc' = "ValueError" /\ pc' = "raised"
              ELSE exc' = r /\ pc' = "raised"
    /\ UNCHANGED <<image, tile_size, ordering, parts, joined_image, idx, pasted, out_file>>

\* rearrange_tiles, line 59.
Split ==
    /\ pc = "split"
    /\ parts' = split_image_with_tile(image, tile_size)
    /\ pc' = "join"
    /\ UNCHANGED <<image, tile_size, ordering, valid, exc, joined_image, idx, pasted,
                   out_file>>

\* join_parts, lines 108-112: size the canvas from the first part.
JoinBegin ==
    /\ pc = "join"
    /\ IF ~PyIndexOk(parts, 0)
       THEN /\ exc' = "IndexError"
            /\ pc' = "raised"
            /\ UNCHANGED joined_image
       ELSE LET part_size == PyIndex(parts, 0).size
            IN  /\ joined_image' = NewImage(Cols * part_size[1], Rows * part_size[2])
                /\ pc' = "paste"
                /\ exc' = exc
    /\ idx' = 0
    /\ UNCHANGED <<image, tile_size, ordering, valid, parts, pasted, out_file>>

\* join_parts, lines 114-123: one iteration of the loop.
JoinPaste ==
    /\ pc = "paste"
    /\ idx < Len(ordering)
    /\ LET part_idx == ordering[idx + 1]
       IN  IF ~PyIndexOk(parts, part_idx)
           THEN /\ exc' = "IndexError"
                /\ pc' = "raised"
                /\ UNCHANGED <<joined_image, idx, pasted>>
           ELSE LET part == PyIndex(parts, part_idx)
                    part_size == PyIndex(parts, 0).size
                    off == DestOffset(DestCell(idx, Cols), part_size)
                IN  /\ joined_image' = Paste(joined_image, part, off[1], off[2])
                    /\ pasted' = Append(pasted, <<off[1], off[2],
                                                  off[1] + part.size[1],
                                                  off[2] + part.size[2]>>)
                    /\ idx' = idx + 1
                    /\ exc' = exc
                    /\ pc' = pc
    /\ UNCHANGED <<image, tile_size, ordering, valid, parts, out_file>>

\* join_parts, line 125, and rearrange_tiles, line 62.
JoinReturn ==
    /\ pc = "paste"
    /\ idx = Len(ordering)
    /\ pc' = "save"
    /\ UNCHANGED <<image, tile_size, ordering, valid, exc, parts, joined_image, idx,
                   pasted, out_file>>

\* rearrange_tiles, line 65.
Save ==
    /\ pc = "save"
    /\ out_file' = [state |-> "saved", data |-> joined_image]
    /\ pc' = "done"
    /\ UNCHANGED <<image, tile_size, ordering, valid, exc, parts, joined_image, idx,
                   pasted>>

Next ==
    \/ CallValidInput
    \/ Open
    \/ Validate
    \/ Split
    \/ JoinBegin
    \/ JoinPaste
    \/ JoinReturn
    \/ Save

Spec == Init /\ [][Next]_vars

----------------------------------------------------------------------------
\* Vocabulary of the properties

\* The tile size divides each image dimension without remainder.
TileDivides ==
    /\ tile_size[1] # 0
    /\ tile_size[2] # 0
    /\ image.size[1] % tile_size[1] = 0
    /\ image.size[2] % tile_size[2] = 0

\* The condition "W % tw != 0 or H % th != 0", evaluated left to right as
\* Python evaluates it, where it has a value and that value is true.
RemainderLeft ==
    /\ tile_size[1] # 0
    /\ \/ image.size[1] % tile_size[1] # 0
       \/ tile_size[2] # 0 /\ image.size[2] % tile_size[2] # 0

\* N = (W/tw) * (H/th); read only where TileDivides holds.
TileCount == Cols * Rows

HasRepeat(ord) == \E i, j \in 1..Len(ord) : i # j /\ ord[i] = ord[j]

IsPermutation(ord, n) == Len(ord) = n /\ {ord[i] : i \in 1..Len(ord)} = 0..(n - 1)

Identity(n) == [i \in 1..n |-> i - 1]

InTileRange(v) == 0 <= v /\ v < TileCount

\* The rectangle of img at grid position (row = i \div Cols, col = i % Cols).
GridCell(img, i) ==
    LET left == (i % Cols) * tile_size[1]
        upper == (i \div Cols) * tile_size[2]
    IN  Crop(img, <<left, upper, left + tile_size[1], upper + tile_size[2]>>)

AllBlank(img) == \A p \in DOMAIN img.px : img.px[p] = Blank

\* A call of rearrange_tiles has ended, by returning or by raising.
RearrangeEnded == pc \in {"raised", "done"}

\* join_parts has returned its canvas to rearrange_tiles.
Joined == pc \in {"save", "done"}

----------------------------------------------------------------------------
\* C1: valid_input is total: every call returns a boolean and none raises.
C1_ValidInputTotal ==
    pc = "returned" => valid \in {"True", "False"} /\ exc = "none"

\* C2: valid_input returns True only when the tile size divides each image
\* dimension and the ordering is a permutation of 0..N-1; for every other
\* input rearrange_tiles raises ValueError (read for the tile sizes without a
\* zero component).
C2_AcceptsOnlyPermutations ==
    /\ valid = "True" => TileDivides /\ IsPermutation(ordering, TileCount)
    /\ /\ RearrangeEnded
       /\ tile_size[1] # 0 /\ tile_size[2] # 0
       /\ ~(TileDivides /\ IsPermutation(ordering, TileCount))
       => exc = "ValueError"

\* C3, as stated: given divisibility, valid_input returns True if and only if
\* N % len(ordering) == 0 (read for the non-empty orderings, where the
\* remainder is defined).
C3_CountRule ==
    valid # "none" /\ TileDivides /\ Len(ordering) > 0
        => (valid = "True" <=> TileCount % Len(ordering) = 0)

\* C3, amended: given divisibility, valid_input returns True if and only if the
\* ordering has no repeated value, is not empty and N % len(ordering) == 0.
C3_CountRuleAmended ==
    valid # "none" /\ TileDivides
        => (valid = "True" <=> /\ ~HasRepeat(ordering)
                                /\ Len(ordering) > 0
                                /\ TileCount % Len(ordering) = 0)

C3_Witness ==
    /\ pc = "returned"
    /\ TileDivides
    /\ valid = "True"
    /\ Len(ordering) > 1
    /\ Len(ordering) < TileCount

\* C4: valid_input returns False whenever the ordering has a repeated value,
\* whatever the image and tile size, and returns False whenever
\* W % tw != 0 or H % th != 0, whatever the ordering.
C4_RejectionRules ==
    valid # "none"
        => /\ HasRepeat(ordering) => valid = "False"
           /\ RemainderLeft => valid = "False"

\* A repeated value is the only reason to reject here.
C4_Witness ==
    /\ valid = "False"
    /\ HasRepeat(ordering)
    /\ TileDivides
    /\ TileCount % Len(ordering) = 0

\* C5: a call of rearrange_tiles whose tile size or ordering the validator does
\* not accept ends with ValueError and leaves out_path as it was.
C5_InvalidRaisesValueError ==
    RearrangeEnded /\ valid_input(image.size, tile_size, ordering) # "True"
        => exc = "ValueError" /\ out_file.state # "saved"

\* C6: with the tile size dividing the image and ordering = [0, ..., N-1],
\* joining the split image reproduces the image pixel for pixel.
C6_SplitJoinIdentity ==
    Joined /\ ordering = Identity(TileCount) => joined_image = image

C6_Witness ==
    /\ Joined
    /\ ordering = Identity(TileCount)
    /\ Cols > 1
    /\ Rows > 1

\* C7: with a permutation ordering of all N tiles, output grid cell idx holds
\* the content of source tile ordering[idx], for every idx in 0..N-1.
C7_PermutationCorrect ==
    Joined /\ IsPermutation(ordering, TileCount)
        => \A i \in 0..(TileCount - 1) :
               GridCell(joined_image, i) = GridCell(image, ordering[i + 1])

C7_Witness ==
    /\ Joined
    /\ IsPermutation(ordering, TileCount)
    /\ ordering # Identity(TileCount)
    /\ Cols > 1
    /\ Rows > 1

\* C8: an ordering that passes validation but holds a value outside [0, N)
\* makes the tile lookup fail with IndexError; none is turned into an output.
C8_OutOfRangeFails ==
    /\ valid = "True"
    /\ RearrangeEnded \/ Joined
    /\ \E i \in 1..Len(ordering) : ~InTileRange(ordering[i])
    => exc = "IndexError" /\ out_file.state # "saved"

BoxInside(box, img) ==
    /\ 0 <= box[1] /\ box[1] < box[3] /\ box[3] <= img.size[1]
    /\ 0 <= box[2] /\ box[2] < box[4] /\ box[4] <= img.size[2]

BoxesDisjoint(a, b) ==
    \/ a[3] <= b[1] \/ b[3] <= a[1]
    \/ a[4] <= b[2] \/ b[4] <= a[2]

C10_PastesInsideAndDistinct ==
    /\ \A k \in 1..Len(pasted) :
           /\ BoxInside(pasted[k], joined_image)
           /\ pasted[k][1] = ((k - 1) % Cols) * tile_size[1]
           /\ pasted[k][2] = ((k - 1) \div Cols) * tile_size[2]
           /\ (k - 1) % Cols < Cols /\ (k - 1) \div Cols < Rows
    /\ \A k, m \in 1..Len(pasted) : k # m => BoxesDisjoint(pasted[k], pasted[m])

C10_Witness ==
    /\ pc = "paste"
    /\ Len(pasted) = 4
    /\ Cols = 2
    /\ Rows = 2

====
